---- MODULE Spec2Model ----
(***************************************************************************)
(* Model of pkg/cache/clusterscoped_cache.go: the multiClusterCache, a     *)
(* cache facade that routes Get / List / GetInformer to one cache per      *)
(* cluster (clusterToCache) or to the global "*" cache (gClusterCache).    *)
(*                                                                         *)
(* Callers are goroutines (Threads).  The facade holds no lock, so every   *)
(* access to the clusterToCache map and to c.opts is a step of its own and *)
(* the steps of concurrent calls interleave freely.  A Go map assignment   *)
(* is not atomic: it is modelled as a begin step (runtime sets the         *)
(* hashWriting flag) and an end step (entry stored, flag cleared).  Any    *)
(* other access to the map between the two is a data race, whose outcomes  *)
(* are the ones the Go runtime produces: a fatal "concurrent map ..."      *)
(* error that kills the process, or no detection, in which case the read   *)
(* sees the map without the entry and a racing write may be lost.          *)
(***************************************************************************)
EXTENDS Integers, Sequences, FiniteSets, TLC

\* ---------------------------------------------------------------- bounds
\* calls the callers make in total
MaxCalls == 3

\* the calling goroutines
Threads == {1, 2}

\* ------------------------------------------------------------- constants
\* const globalClusterCache = "_cluster": the key of the global informer
globalClusterCache == "_cluster"
\* the wildcard cluster name
Wildcard == "*"
\* the zero value of a string: no cluster name
NoName == ""
\* concrete cluster names a caller may use
ClusterNames == {"a", globalClusterCache}
\* what obj.GetClusterName() / ctx.Value("clusterName") may hold
NameInputs == ClusterNames \cup {Wildcard, NoName}
\* a context that carries no "clusterName" value: ctx.Value returns nil
NoValue == "<nil>"
\* what ctx.Value("clusterName") may return
CtxInputs == NameInputs \cup {NoValue}
\* a nil client.Object
NilObj == "<nil object>"
\* the instance id of gClusterCache (instances made by New are 1, 2, ...)
GlobalInst == 0

\* results of the underlying caches' operations
GetResults == {"ok", "notfound"}
ListResults == {"ok", "listErr"}

VARIABLES
    clusterToCache,   \* c.clusterToCache: cluster name -> instance id
    created,          \* every cache New() returned: seq of [host, name]
    optsClusterName,  \* c.opts.ClusterName
    writing,          \* threads inside a map assignment (hashWriting)
    raced,            \* threads whose map assignment overlapped another
    crashed,          \* the runtime threw a fatal concurrent-map error
    tasks,            \* goroutines running cache.Start: set of [cache, ctx]
    pc,               \* position of each thread
    op,               \* the facade method the thread is in
    ncalls,           \* calls begun so far, by all threads
    objName,          \* obj.ClusterName of the caller's object
    optName,          \* ClusterName carried by the list options
    clusterName,      \* local clusterName
    newCache,         \* local newCache (instance id), 0 if none
    seen,             \* keys the running range loop has produced
    informers,        \* local informers map: key -> instance id
    ret,              \* what the call returned
    effects,          \* what the call did: set of event records
    regAtStart,       \* clusterToCache when the call began
    indexed,          \* instances an IndexField call installed the index on
    cancelled,        \* the contexts that have been cancelled
    stopped,          \* tasks whose cache.Start has returned
    synced,           \* local synced of WaitForCacheSync
    ctxVal,           \* ctx.Value("clusterName") handed to getClusterName
    hasIndexers,      \* instances whose informer took the indexers of AddIndexers
    failed,           \* tasks whose cache.Start returned an error, which was logged
    objGiven          \* obj.ClusterName as the caller set it before handing obj in

shared == <<clusterToCache, created, optsClusterName, writing, raced, crashed, tasks>>
locals == <<pc, op, ncalls, objName, optName, clusterName, newCache,
            seen, informers, ret, effects, regAtStart>>
vars == <<clusterToCache, created, optsClusterName, writing, raced, crashed, tasks,
          pc, op, ncalls, objName, optName, clusterName, newCache,
          seen, informers, ret, effects, regAtStart,
          indexed, cancelled, stopped, synced, ctxVal, hasIndexers, failed, objGiven>>

\* the state only IndexField, Start, WaitForCacheSync, the tasks, the
\* resolver's own steps and the fan-out informer's AddIndexers touch
more == <<indexed, cancelled, stopped, synced, ctxVal, hasIndexers, failed, objGiven>>

\* -------------------------------------------------------------- helpers
Registered == DOMAIN clusterToCache

EmptyMap == [k \in {} |-> 0]

\* m with m[k] = v
MapPut(m, k, v) == [x \in (DOMAIN m) \cup {k} |-> IF x = k THEN v ELSE m[x]]

Active(t) == pc[t] \notin {"idle", "done"}

\* instances New() made for host <base>/clusters/<p>
InstancesFor(p) == {i \in 1..Len(created) : created[i].host = p}

\* the two sources in the other order: the context's value wins over the
\* object's own name
getClusterName_CtxFirst(ctxv, obj) ==
    LET fromCtx == ctxv
        withObj == IF fromCtx = NoName THEN obj ELSE fromCtx
    IN  IF withObj = NoName THEN Wildcard ELSE withObj

\* func getClusterName(ctx, obj) string
getClusterName(ctxv, obj) ==
    LET fromObj == obj
        withCtx == IF fromObj = NoName THEN ctxv ELSE fromObj
    IN  IF withCtx = NoName THEN Wildcard ELSE withCtx

\* MultiClusterCacheBuilder(clusterNames): the state the builder returns for
\* a list of cluster names (here in the order of the sequence names).
BuilderLists ==
    {<<>>} \cup {<<n>> : n \in ClusterNames}
           \cup {<<n, m>> : <<n, m>> \in {x \in ClusterNames \X ClusterNames : x[1] # x[2]}}

BuilderMap(names) ==
    [n \in {names[i] : i \in 1..Len(names)} |->
        CHOOSE i \in 1..Len(names) : names[i] = n]

BuilderCreated(names) ==
    [i \in 1..Len(names) |-> [host |-> names[i], name |-> names[i]]]

BuilderOptsName(names) ==
    IF Len(names) = 0 THEN NoName ELSE names[Len(names)]

\* the builder made to launch the global cache's task itself
Init_StartsGlobal ==
    /\ \E names \in BuilderLists :
         /\ clusterToCache = BuilderMap(names)
         /\ created = BuilderCreated(names)
         /\ optsClusterName = BuilderOptsName(names)
    /\ writing = {}
    /\ raced = {}
    /\ crashed = FALSE
    /\ tasks = {[cache |-> 0, ctx |-> 0]}
    /\ pc = [t \in Threads |-> "idle"]
    /\ op = [t \in Threads |-> "none"]
    /\ ncalls = 0
    /\ objName = [t \in Threads |-> NoName]
    /\ optName = [t \in Threads |-> NoName]
    /\ clusterName = [t \in Threads |-> NoName]
    /\ newCache = [t \in Threads |-> 0]
    /\ seen = [t \in Threads |-> {}]
    /\ informers = [t \in Threads |-> EmptyMap]
    /\ ret = [t \in Threads |-> "none"]
    /\ effects = [t \in Threads |-> {}]
    /\ regAtStart = [t \in Threads |-> EmptyMap]
    /\ indexed = {}
    /\ cancelled = {}
    /\ stopped = {}
    /\ synced = [t \in Threads |-> TRUE]
    /\ ctxVal = [t \in Threads |-> NoName]
    /\ hasIndexers = {}
    /\ failed = {}
    /\ objGiven = [t \in Threads |-> NoName]

Init ==
    /\ \E names \in BuilderLists :
         /\ clusterToCache = BuilderMap(names)
         /\ created = BuilderCreated(names)
         /\ optsClusterName = BuilderOptsName(names)
    /\ writing = {}
    /\ raced = {}
    /\ crashed = FALSE
    /\ tasks = {}
    /\ pc = [t \in Threads |-> "idle"]
    /\ op = [t \in Threads |-> "none"]
    /\ ncalls = 0
    /\ objName = [t \in Threads |-> NoName]
    /\ optName = [t \in Threads |-> NoName]
    /\ clusterName = [t \in Threads |-> NoName]
    /\ newCache = [t \in Threads |-> 0]
    /\ seen = [t \in Threads |-> {}]
    /\ informers = [t \in Threads |-> EmptyMap]
    /\ ret = [t \in Threads |-> "none"]
    /\ effects = [t \in Threads |-> {}]
    /\ regAtStart = [t \in Threads |-> EmptyMap]
    /\ indexed = {}
    /\ cancelled = {}
    /\ stopped = {}
    /\ synced = [t \in Threads |-> TRUE]
    /\ ctxVal = [t \in Threads |-> NoName]
    /\ hasIndexers = {}
    /\ failed = {}
    /\ objGiven = [t \in Threads |-> NoName]

\* ------------------------------------------------------- call bookkeeping
\* A thread enters a facade method: its locals are those of a fresh call.
CanCall(t) ==
    /\ ~crashed
    /\ pc[t] \in {"idle", "done"}
    /\ ncalls < MaxCalls

Enter(t, method) ==
    /\ op' = [op EXCEPT ![t] = method]
    /\ ncalls' = ncalls + 1
    /\ newCache' = [newCache EXCEPT ![t] = 0]
    /\ seen' = [seen EXCEPT ![t] = {}]
    /\ informers' = [informers EXCEPT ![t] = EmptyMap]

\* the fatal error of the Go runtime: the process is gone
Crash ==
    /\ crashed' = TRUE
    /\ UNCHANGED <<clusterToCache, created, optsClusterName, writing, raced, tasks>>
    /\ UNCHANGED locals
    /\ UNCHANGED more

\* a map read or range step of thread t that runs while another thread is
\* inside a map assignment
ReadRaces(t) == writing \ {t} # {}

\* ------------------------------------------------------------------- Get
\* the go statement of lines 207-214 left out: no task is launched
LaunchTask_Dropped(t, inst) == tasks

\* go func(cs, cache) { cache.Start(ctx) }(clusterName, newCache)
LaunchTask(t, inst) == tasks \cup {[cache |-> inst, ctx |-> t]}

\* the return of line 192 left out: after the global cache's Get the call
\* falls through to the lookup of "*" among the cluster caches
GetGlobal_FallsThrough(t, obj, ctxv) ==
    /\ CanCall(t)
    /\ getClusterName(ctxv, obj) = Wildcard
    /\ Enter(t, "Get")
    /\ optName' = [optName EXCEPT ![t] = NoName]
    /\ regAtStart' = [regAtStart EXCEPT ![t] = EmptyMap]
    /\ \E r \in GetResults :
         effects' = [effects EXCEPT ![t] =
                       {[ev |-> "Get", cache |-> GlobalInst, res |-> r]}]
    /\ ret' = [ret EXCEPT ![t] = "none"]
    /\ clusterName' = [clusterName EXCEPT ![t] = Wildcard]
    /\ objName' = [objName EXCEPT ![t] = Wildcard]
    /\ pc' = [pc EXCEPT ![t] = "get_lookup"]
    /\ UNCHANGED shared
    /\ UNCHANGED more

\* Get, lines 188-193: the resolved cluster is "*": the global cache answers
GetGlobal(t, obj, ctxv) ==
    /\ CanCall(t)
    /\ getClusterName(ctxv, obj) = Wildcard
    /\ Enter(t, "Get")
    /\ optName' = [optName EXCEPT ![t] = NoName]
    /\ regAtStart' = [regAtStart EXCEPT ![t] = EmptyMap]
    /\ \E r \in GetResults :
         /\ ret' = [ret EXCEPT ![t] = r]
         /\ effects' = [effects EXCEPT ![t] =
                          {[ev |-> "Get", cache |-> GlobalInst, res |-> r]}]
    /\ clusterName' = [clusterName EXCEPT ![t] = Wildcard]
    /\ objName' = [objName EXCEPT ![t] = obj]
    /\ pc' = [pc EXCEPT ![t] = "done"]
    /\ UNCHANGED shared
    /\ UNCHANGED more

\* Get, lines 188-194: the resolved cluster is concrete; obj.SetClusterName
GetBegin(t, obj, ctxv) ==
    /\ CanCall(t)
    /\ getClusterName(ctxv, obj) # Wildcard
    /\ Enter(t, "Get")
    /\ optName' = [optName EXCEPT ![t] = NoName]
    /\ regAtStart' = [regAtStart EXCEPT ![t] = EmptyMap]
    /\ clusterName' = [clusterName EXCEPT ![t] = getClusterName(ctxv, obj)]
    /\ objName' = [objName EXCEPT ![t] = getClusterName(ctxv, obj)]
    /\ ret' = [ret EXCEPT ![t] = "none"]
    /\ effects' = [effects EXCEPT ![t] = {}]
    /\ pc' = [pc EXCEPT ![t] = "get_lookup"]
    /\ UNCHANGED shared
    /\ UNCHANGED more

\* Get, line 217: return cache.Get(ctx, key, obj)
GetDelegate(t, inst, done) ==
    \E r \in GetResults :
        /\ ret' = [ret EXCEPT ![t] = r]
        /\ effects' = [effects EXCEPT ![t] =
                         done \cup {[ev |-> "Get", cache |-> inst, res |-> r]}]
        /\ pc' = [pc EXCEPT ![t] = "done"]

\* Get, lines 196-197 and 217: cache, ok := c.clusterToCache[clusterName]
GetLookup(t) ==
    /\ ~crashed
    /\ pc[t] = "get_lookup"
    /\ \/ /\ clusterName[t] \in Registered
          /\ GetDelegate(t, clusterToCache[clusterName[t]], effects[t])
       \/ /\ clusterName[t] \notin Registered
          /\ pc' = [pc EXCEPT ![t] = "get_setopts"]
          /\ UNCHANGED <<ret, effects>>
    /\ UNCHANGED shared
    /\ UNCHANGED <<op, ncalls, objName, optName, clusterName, newCache,
                   seen, informers, regAtStart>>
    /\ UNCHANGED more

\* Get, line 196 when another goroutine is writing the map: the runtime may
\* throw "concurrent map read and map write"
GetLookupCrash(t) ==
    /\ ~crashed
    /\ pc[t] = "get_lookup"
    /\ ReadRaces(t)
    /\ Crash

\* Get, lines 198-200: c.opts.ClusterName = clusterName
GetSetOpts(t) ==
    /\ ~crashed
    /\ pc[t] = "get_setopts"
    /\ optsClusterName' = clusterName[t]
    /\ pc' = [pc EXCEPT ![t] = "get_new"]
    /\ UNCHANGED <<clusterToCache, created, writing, raced, crashed, tasks>>
    /\ UNCHANGED <<op, ncalls, objName, optName, clusterName, newCache,
                   seen, informers, ret, effects, regAtStart>>
    /\ UNCHANGED more

\* Get, line 201: newCache, err := New(&scopedConfig, c.opts) succeeds
GetNew(t) ==
    /\ ~crashed
    /\ pc[t] = "get_new"
    /\ created' = Append(created, [host |-> clusterName[t], name |-> optsClusterName])
    /\ newCache' = [newCache EXCEPT ![t] = Len(created) + 1]
    /\ effects' = [effects EXCEPT ![t] = @ \cup {[ev |-> "New", cache |-> Len(created) + 1]}]
    /\ pc' = [pc EXCEPT ![t] = "get_assign"]
    /\ UNCHANGED <<clusterToCache, optsClusterName, writing, raced, crashed, tasks>>
    /\ UNCHANGED <<op, ncalls, objName, optName, clusterName,
                   seen, informers, ret, regAtStart>>
    /\ UNCHANGED more

\* the assignment of line 205 moved above the error check of line 202: the
\* nil cache of the failed New is stored
GetNewFails_Inserts(t) ==
    /\ ~crashed
    /\ pc[t] = "get_new"
    /\ ret' = [ret EXCEPT ![t] = "createErr"]
    /\ effects' = [effects EXCEPT ![t] = @ \cup {[ev |-> "NewFailed"]}]
    /\ pc' = [pc EXCEPT ![t] = "done"]
    /\ clusterToCache' = MapPut(clusterToCache, clusterName[t], GlobalInst)
    /\ UNCHANGED <<created, optsClusterName, writing, raced, crashed, tasks>>
    /\ UNCHANGED <<op, ncalls, objName, optName, clusterName, newCache,
                   seen, informers, regAtStart>>
    /\ UNCHANGED more

\* Get, lines 201-204: New fails, return err
GetNewFails(t) ==
    /\ ~crashed
    /\ pc[t] = "get_new"
    /\ ret' = [ret EXCEPT ![t] = "createErr"]
    /\ effects' = [effects EXCEPT ![t] = @ \cup {[ev |-> "NewFailed"]}]
    /\ pc' = [pc EXCEPT ![t] = "done"]
    /\ UNCHANGED shared
    /\ UNCHANGED <<op, ncalls, objName, optName, clusterName, newCache,
                   seen, informers, regAtStart>>
    /\ UNCHANGED more

\* Get, line 205, entering the map assignment: hashWriting is set
GetAssignBegin(t) ==
    /\ ~crashed
    /\ pc[t] = "get_assign"
    /\ writing' = writing \cup {t}
    /\ raced' = IF writing # {} THEN raced \cup writing \cup {t} ELSE raced
    /\ pc' = [pc EXCEPT ![t] = "get_assign_end"]
    /\ UNCHANGED <<clusterToCache, created, optsClusterName, crashed, tasks>>
    /\ UNCHANGED <<op, ncalls, objName, optName, clusterName, newCache,
                   seen, informers, ret, effects, regAtStart>>
    /\ UNCHANGED more

\* Get, line 205 when two assignments overlap: "concurrent map writes"
GetAssignCrash(t) ==
    /\ ~crashed
    /\ pc[t] \in {"get_assign", "get_assign_end"}
    /\ \/ pc[t] = "get_assign" /\ writing # {}
       \/ pc[t] = "get_assign_end" /\ t \in raced
    /\ Crash

\* Get, lines 205-217: the entry is stored, the task is launched with the
\* caller's ctx, and the new cache answers
GetAssignEnd(t) ==
    /\ ~crashed
    /\ pc[t] = "get_assign_end"
    /\ clusterToCache' = MapPut(clusterToCache, clusterName[t], newCache[t])
    /\ writing' = writing \ {t}
    /\ raced' = raced \ {t}
    /\ tasks' = LaunchTask(t, newCache[t])
    /\ GetDelegate(t, newCache[t],
                   effects[t] \cup {[ev |-> "insert", cache |-> newCache[t]],
                                    [ev |-> "go", cache |-> newCache[t]]})
    /\ UNCHANGED <<created, optsClusterName, crashed>>
    /\ UNCHANGED <<op, ncalls, objName, optName, clusterName, newCache,
                   seen, informers, regAtStart>>
    /\ UNCHANGED more

\* Get, line 205 when the assignment raced with another and the runtime did
\* not notice: the entry written by this goroutine is lost
GetAssignLost(t) ==
    /\ ~crashed
    /\ pc[t] = "get_assign_end"
    /\ t \in raced
    /\ writing' = writing \ {t}
    /\ raced' = raced \ {t}
    /\ tasks' = LaunchTask(t, newCache[t])
    /\ GetDelegate(t, newCache[t],
                   effects[t] \cup {[ev |-> "insert", cache |-> newCache[t]],
                                    [ev |-> "go", cache |-> newCache[t]]})
    /\ UNCHANGED <<clusterToCache, created, optsClusterName, crashed>>
    /\ UNCHANGED <<op, ncalls, objName, optName, clusterName, newCache,
                   seen, informers, regAtStart>>
    /\ UNCHANGED more

Get(t) ==
    \/ \E obj \in NameInputs, ctxv \in NameInputs : GetGlobal(t, obj, ctxv)
    \/ \E obj \in NameInputs, ctxv \in NameInputs : GetBegin(t, obj, ctxv)
    \/ GetLookup(t)
    \/ GetLookupCrash(t)
    \/ GetSetOpts(t)
    \/ GetNew(t)
    \/ GetNewFails(t)
    \/ GetAssignBegin(t)
    \/ GetAssignCrash(t)
    \/ GetAssignEnd(t)
    \/ GetAssignLost(t)

\* ------------------------------------------------------------------ List
\* List, lines 226-228: listOpts := client.ListOptions{} and then
\* clusterName := listOpts.ClusterName, read before ApplyOptions(opts) runs
\* at line 237: the field of the empty struct, whatever the options carry
listOptsClusterName(lopt) == NoName

\* List, lines 228-235: the clusterName List routes by; the error built at
\* line 234 is dropped, so an empty name goes on
listClusterName(lopt, ctxv) ==
    IF listOptsClusterName(lopt) = NoName THEN ctxv ELSE listOptsClusterName(lopt)

\* List, lines 239-242: return c.gClusterCache.List(ctx, list, opts...)
ListGlobal(t, lopt, ctxv) ==
    /\ CanCall(t)
    /\ listClusterName(lopt, ctxv) = Wildcard
    /\ Enter(t, "List")
    /\ \E r \in ListResults :
         /\ ret' = [ret EXCEPT ![t] = r]
         /\ effects' = [effects EXCEPT ![t] =
                          {[ev |-> "List", cache |-> GlobalInst, res |-> r]}]
    /\ clusterName' = [clusterName EXCEPT ![t] = Wildcard]
    /\ optName' = [optName EXCEPT ![t] = lopt]
    /\ regAtStart' = [regAtStart EXCEPT ![t] = clusterToCache]
    /\ pc' = [pc EXCEPT ![t] = "done"]
    /\ UNCHANGED objName
    /\ UNCHANGED shared
    /\ UNCHANGED more

\* List, lines 226-239: the name is not "*", on to the individual caches
ListBegin(t, lopt, ctxv) ==
    /\ CanCall(t)
    /\ listClusterName(lopt, ctxv) # Wildcard
    /\ Enter(t, "List")
    /\ clusterName' = [clusterName EXCEPT ![t] = listClusterName(lopt, ctxv)]
    /\ optName' = [optName EXCEPT ![t] = lopt]
    /\ regAtStart' = [regAtStart EXCEPT ![t] = clusterToCache]
    /\ ret' = [ret EXCEPT ![t] = "none"]
    /\ effects' = [effects EXCEPT ![t] = {}]
    /\ pc' = [pc EXCEPT ![t] = "list_lookup"]
    /\ UNCHANGED objName
    /\ UNCHANGED shared
    /\ UNCHANGED more

\* List, lines 245-249: cache, ok := c.clusterToCache[clusterName]
ListLookup(t) ==
    /\ ~crashed
    /\ pc[t] = "list_lookup"
    /\ \/ /\ clusterName[t] \in Registered
          /\ \E r \in ListResults :
               /\ ret' = [ret EXCEPT ![t] = r]
               /\ effects' = [effects EXCEPT ![t] =
                    {[ev |-> "List", cache |-> clusterToCache[clusterName[t]], res |-> r]}]
       \/ /\ clusterName[t] \notin Registered
          /\ ret' = [ret EXCEPT ![t] = "unknownCluster"]
          /\ UNCHANGED effects
    /\ pc' = [pc EXCEPT ![t] = "done"]
    /\ UNCHANGED shared
    /\ UNCHANGED <<op, ncalls, objName, optName, clusterName, newCache,
                   seen, informers, regAtStart>>
    /\ UNCHANGED more

\* List, line 245 when another goroutine is writing the map
ListLookupCrash(t) ==
    /\ ~crashed
    /\ pc[t] = "list_lookup"
    /\ ReadRaces(t)
    /\ Crash

List(t) ==
    \/ \E lopt \in NameInputs, ctxv \in NameInputs : ListGlobal(t, lopt, ctxv)
    \/ \E lopt \in NameInputs, ctxv \in NameInputs : ListBegin(t, lopt, ctxv)
    \/ ListLookup(t)
    \/ ListLookupCrash(t)

\* ----------------------------------------------------------- GetInformer
\* the informers the fan-out informer was built from
Constituents(m) == {m[k] : k \in DOMAIN m}

\* GetInformer, lines 89-98: the name is "*" and the global cache's
\* GetInformer fails: return nil, err
GetInformerGlobalFails(t, obj, ctxv) ==
    /\ CanCall(t)
    /\ getClusterName(ctxv, obj) = Wildcard
    /\ Enter(t, "GetInformer")
    /\ clusterName' = [clusterName EXCEPT ![t] = Wildcard]
    /\ objName' = [objName EXCEPT ![t] = obj]
    /\ regAtStart' = [regAtStart EXCEPT ![t] = clusterToCache]
    /\ ret' = [ret EXCEPT ![t] = "informerErr"]
    /\ effects' = [effects EXCEPT ![t] =
                     {[ev |-> "GetInformer", cache |-> GlobalInst, res |-> "informerErr"]}]
    /\ pc' = [pc EXCEPT ![t] = "done"]
    /\ UNCHANGED optName
    /\ UNCHANGED shared
    /\ UNCHANGED more

\* GetInformer, lines 89-101: informers[globalClusterCache] = globalInformer
\* when the name is "*"; obj.SetClusterName(clusterName) in either case
GetInformerBegin(t, obj, ctxv) ==
    /\ CanCall(t)
    /\ op' = [op EXCEPT ![t] = "GetInformer"]
    /\ ncalls' = ncalls + 1
    /\ newCache' = [newCache EXCEPT ![t] = 0]
    /\ seen' = [seen EXCEPT ![t] = {}]
    /\ clusterName' = [clusterName EXCEPT ![t] = getClusterName(ctxv, obj)]
    /\ objName' = [objName EXCEPT ![t] = getClusterName(ctxv, obj)]
    /\ regAtStart' = [regAtStart EXCEPT ![t] = clusterToCache]
    /\ IF getClusterName(ctxv, obj) = Wildcard
       THEN /\ informers' = [informers EXCEPT ![t] =
                               MapPut(EmptyMap, globalClusterCache, GlobalInst)]
            /\ effects' = [effects EXCEPT ![t] =
                             {[ev |-> "GetInformer", cache |-> GlobalInst, res |-> "ok"]}]
       ELSE /\ informers' = [informers EXCEPT ![t] = EmptyMap]
            /\ effects' = [effects EXCEPT ![t] = {}]
    /\ ret' = [ret EXCEPT ![t] = "none"]
    /\ pc' = [pc EXCEPT ![t] = "gi_range"]
    /\ UNCHANGED optName
    /\ UNCHANGED shared
    /\ UNCHANGED more

\* GetInformer, lines 103-109, one turn of the range loop over
\* c.clusterToCache: informers[cs] = informer
GetInformerRange(t, cs) ==
    /\ ~crashed
    /\ pc[t] = "gi_range"
    /\ cs \in Registered \ seen[t]
    /\ seen' = [seen EXCEPT ![t] = @ \cup {cs}]
    /\ informers' = [informers EXCEPT ![t] = MapPut(@, cs, clusterToCache[cs])]
    /\ effects' = [effects EXCEPT ![t] =
           @ \cup {[ev |-> "GetInformer", cache |-> clusterToCache[cs], res |-> "ok"]}]
    /\ UNCHANGED shared
    /\ UNCHANGED <<pc, op, ncalls, objName, optName, clusterName, newCache,
                   ret, regAtStart>>
    /\ UNCHANGED more

\* GetInformer, lines 104-107: a cache's GetInformer fails: return nil, err
GetInformerRangeFails(t, cs) ==
    /\ ~crashed
    /\ pc[t] = "gi_range"
    /\ cs \in Registered \ seen[t]
    /\ seen' = [seen EXCEPT ![t] = @ \cup {cs}]
    /\ informers' = [informers EXCEPT ![t] = EmptyMap]
    /\ effects' = [effects EXCEPT ![t] =
           @ \cup {[ev |-> "GetInformer", cache |-> clusterToCache[cs], res |-> "informerErr"]}]
    /\ ret' = [ret EXCEPT ![t] = "informerErr"]
    /\ pc' = [pc EXCEPT ![t] = "done"]
    /\ UNCHANGED shared
    /\ UNCHANGED <<op, ncalls, objName, optName, clusterName, newCache, regAtStart>>
    /\ UNCHANGED more

\* GetInformer, line 103 when another goroutine is writing the map:
\* "concurrent map iteration and map write"
GetInformerRangeCrash(t) ==
    /\ ~crashed
    /\ pc[t] = "gi_range"
    /\ ReadRaces(t)
    /\ Crash

\* GetInformer, line 111: the loop is over (an entry inserted while it ran
\* may or may not have been produced): return &multiClusterInformer{...}
GetInformerReturn(t) ==
    /\ ~crashed
    /\ pc[t] = "gi_range"
    /\ (DOMAIN regAtStart[t]) \subseteq seen[t]
    /\ ret' = [ret EXCEPT ![t] = "ok"]
    /\ pc' = [pc EXCEPT ![t] = "done"]
    /\ UNCHANGED shared
    /\ UNCHANGED <<op, ncalls, objName, optName, clusterName, newCache,
                   seen, informers, effects, regAtStart>>
    /\ UNCHANGED more

GetInformer(t) ==
    \/ \E obj \in NameInputs, ctxv \in NameInputs : GetInformerGlobalFails(t, obj, ctxv)
    \/ \E obj \in NameInputs, ctxv \in NameInputs : GetInformerBegin(t, obj, ctxv)
    \/ \E cs \in ClusterNames : GetInformerRange(t, cs)
    \/ \E cs \in ClusterNames : GetInformerRangeFails(t, cs)
    \/ GetInformerRangeCrash(t)
    \/ GetInformerReturn(t)

\* ------------------------------------------------------------ IndexField
IndexResults == {"ok", "indexErr"}

\* what a cache's IndexField leaves behind: the index, unless it failed
Install(inst, r) == IF r = "ok" THEN indexed \cup {inst} ELSE indexed

\* the return of line 175 left out: the index is installed on the global
\* cache and then on every cluster cache as well
IndexFieldGlobal_AllCaches(t, obj, ctxv) ==
    /\ CanCall(t)
    /\ getClusterName(ctxv, obj) = Wildcard
    /\ Enter(t, "IndexField")
    /\ \E r \in IndexResults :
         /\ ret' = [ret EXCEPT ![t] = r]
         /\ effects' = [effects EXCEPT ![t] =
                          {[ev |-> "IndexField", cache |-> GlobalInst, res |-> r]}]
         /\ indexed' = Install(GlobalInst, r) \cup Constituents(clusterToCache)
    /\ clusterName' = [clusterName EXCEPT ![t] = Wildcard]
    /\ objName' = [objName EXCEPT ![t] = obj]
    /\ regAtStart' = [regAtStart EXCEPT ![t] = clusterToCache]
    /\ pc' = [pc EXCEPT ![t] = "done"]
    /\ UNCHANGED optName
    /\ UNCHANGED shared
    /\ UNCHANGED <<cancelled, stopped, synced, ctxVal, hasIndexers, failed, objGiven>>

\* IndexField, lines 172-176: the name is "*":
\* return c.gClusterCache.IndexField(ctx, obj, field, extractValue)
IndexFieldGlobal(t, obj, ctxv) ==
    /\ CanCall(t)
    /\ getClusterName(ctxv, obj) = Wildcard
    /\ Enter(t, "IndexField")
    /\ \E r \in IndexResults :
         /\ ret' = [ret EXCEPT ![t] = r]
         /\ effects' = [effects EXCEPT ![t] =
                          {[ev |-> "IndexField", cache |-> GlobalInst, res |-> r]}]
         /\ indexed' = Install(GlobalInst, r)
    /\ clusterName' = [clusterName EXCEPT ![t] = Wildcard]
    /\ objName' = [objName EXCEPT ![t] = obj]
    /\ regAtStart' = [regAtStart EXCEPT ![t] = clusterToCache]
    /\ pc' = [pc EXCEPT ![t] = "done"]
    /\ UNCHANGED optName
    /\ UNCHANGED shared
    /\ UNCHANGED <<cancelled, stopped, synced, ctxVal, hasIndexers, failed, objGiven>>

\* IndexField, lines 172-177: the name is concrete; obj.SetClusterName
IndexFieldBegin(t, obj, ctxv) ==
    /\ CanCall(t)
    /\ getClusterName(ctxv, obj) # Wildcard
    /\ Enter(t, "IndexField")
    /\ clusterName' = [clusterName EXCEPT ![t] = getClusterName(ctxv, obj)]
    /\ objName' = [objName EXCEPT ![t] = getClusterName(ctxv, obj)]
    /\ regAtStart' = [regAtStart EXCEPT ![t] = clusterToCache]
    /\ ret' = [ret EXCEPT ![t] = "none"]
    /\ effects' = [effects EXCEPT ![t] = {}]
    /\ pc' = [pc EXCEPT ![t] = "if_range"]
    /\ UNCHANGED optName
    /\ UNCHANGED shared
    /\ UNCHANGED more

\* IndexField, lines 179-183, one turn of the range loop: the cache's
\* IndexField succeeds
IndexFieldRange(t, cs) ==
    /\ ~crashed
    /\ pc[t] = "if_range"
    /\ cs \in Registered \ seen[t]
    /\ seen' = [seen EXCEPT ![t] = @ \cup {cs}]
    /\ indexed' = Install(clusterToCache[cs], "ok")
    /\ effects' = [effects EXCEPT ![t] =
           @ \cup {[ev |-> "IndexField", cache |-> clusterToCache[cs], res |-> "ok"]}]
    /\ UNCHANGED shared
    /\ UNCHANGED <<pc, op, ncalls, objName, optName, clusterName, newCache,
                   informers, ret, regAtStart>>
    /\ UNCHANGED <<cancelled, stopped, synced, ctxVal, hasIndexers, failed, objGiven>>

\* IndexField, lines 180-182: the cache's IndexField fails: return err
IndexFieldRangeFails(t, cs) ==
    /\ ~crashed
    /\ pc[t] = "if_range"
    /\ cs \in Registered \ seen[t]
    /\ seen' = [seen EXCEPT ![t] = @ \cup {cs}]
    /\ effects' = [effects EXCEPT ![t] =
           @ \cup {[ev |-> "IndexField", cache |-> clusterToCache[cs], res |-> "indexErr"]}]
    /\ ret' = [ret EXCEPT ![t] = "indexErr"]
    /\ pc' = [pc EXCEPT ![t] = "done"]
    /\ UNCHANGED shared
    /\ UNCHANGED <<op, ncalls, objName, optName, clusterName, newCache,
                   informers, regAtStart>>
    /\ UNCHANGED more

\* IndexField, line 179 when another goroutine is writing the map
IndexFieldRangeCrash(t) ==
    /\ ~crashed
    /\ pc[t] = "if_range"
    /\ ReadRaces(t)
    /\ Crash

\* IndexField, line 184: the loop is over: return nil
IndexFieldReturn(t) ==
    /\ ~crashed
    /\ pc[t] = "if_range"
    /\ (DOMAIN regAtStart[t]) \subseteq seen[t]
    /\ ret' = [ret EXCEPT ![t] = "ok"]
    /\ pc' = [pc EXCEPT ![t] = "done"]
    /\ UNCHANGED shared
    /\ UNCHANGED <<op, ncalls, objName, optName, clusterName, newCache,
                   seen, informers, effects, regAtStart>>
    /\ UNCHANGED more

IndexField(t) ==
    \/ \E obj \in NameInputs, ctxv \in NameInputs : IndexFieldGlobal(t, obj, ctxv)
    \/ \E obj \in NameInputs, ctxv \in NameInputs : IndexFieldBegin(t, obj, ctxv)
    \/ \E cs \in ClusterNames : IndexFieldRange(t, cs)
    \/ \E cs \in ClusterNames : IndexFieldRangeFails(t, cs)
    \/ IndexFieldRangeCrash(t)
    \/ IndexFieldReturn(t)

\* callers that call Get and IndexField
NextIndex == \E t \in Threads : Get(t) \/ IndexField(t)
SpecIndex == Init /\ [][NextIndex]_vars

\* ----------------------------------------------------------------- Start
\* the ctx handed to the facade's Start: the shared cancellation context
\* (a caller's own request context is named by the caller's thread id)
SharedCtx == 0
Ctxs == {SharedCtx} \cup Threads

\* Start, lines 134-139 and 143-148: go func() { cache.Start(ctx) }()
\* with the ctx of Start
LaunchStart(inst) == tasks \cup {[cache |-> inst, ctx |-> SharedCtx]}

\* Start, lines 133-139: the global cache's task is launched
StartBegin(t) ==
    /\ CanCall(t)
    /\ Enter(t, "Start")
    /\ tasks' = LaunchStart(GlobalInst)
    /\ effects' = [effects EXCEPT ![t] = {[ev |-> "go", cache |-> GlobalInst]}]
    /\ clusterName' = [clusterName EXCEPT ![t] = NoName]
    /\ regAtStart' = [regAtStart EXCEPT ![t] = clusterToCache]
    /\ ret' = [ret EXCEPT ![t] = "none"]
    /\ pc' = [pc EXCEPT ![t] = "start_range"]
    /\ UNCHANGED <<clusterToCache, created, optsClusterName, writing, raced, crashed>>
    /\ UNCHANGED <<objName, optName>>
    /\ UNCHANGED more

\* Start, lines 142-149, one turn of the range loop: the cache's task is
\* launched
StartRange(t, cs) ==
    /\ ~crashed
    /\ pc[t] = "start_range"
    /\ cs \in Registered \ seen[t]
    /\ seen' = [seen EXCEPT ![t] = @ \cup {cs}]
    /\ tasks' = LaunchStart(clusterToCache[cs])
    /\ effects' = [effects EXCEPT ![t] =
                     @ \cup {[ev |-> "go", cache |-> clusterToCache[cs]]}]
    /\ UNCHANGED <<clusterToCache, created, optsClusterName, writing, raced, crashed>>
    /\ UNCHANGED <<pc, op, ncalls, objName, optName, clusterName, newCache,
                   informers, ret, regAtStart>>
    /\ UNCHANGED more

\* Start, line 142 when another goroutine is writing the map
StartRangeCrash(t) ==
    /\ ~crashed
    /\ pc[t] = "start_range"
    /\ ReadRaces(t)
    /\ Crash

\* Start, lines 149-151: the loop is over, the call blocks on <-ctx.Done()
StartWait(t) ==
    /\ ~crashed
    /\ pc[t] = "start_range"
    /\ (DOMAIN regAtStart[t]) \subseteq seen[t]
    /\ pc' = [pc EXCEPT ![t] = "start_wait"]
    /\ UNCHANGED shared
    /\ UNCHANGED <<op, ncalls, objName, optName, clusterName, newCache,
                   seen, informers, ret, effects, regAtStart>>
    /\ UNCHANGED more

\* the receive of line 151 left out: Start returns without waiting
StartReturn_NoWait(t) ==
    /\ ~crashed
    /\ pc[t] = "start_wait"
    /\ ret' = [ret EXCEPT ![t] = "nil"]
    /\ pc' = [pc EXCEPT ![t] = "done"]
    /\ UNCHANGED shared
    /\ UNCHANGED <<op, ncalls, objName, optName, clusterName, newCache,
                   seen, informers, effects, regAtStart>>
    /\ UNCHANGED more

\* Start, lines 151-152: ctx is done: return nil
StartReturn(t) ==
    /\ ~crashed
    /\ pc[t] = "start_wait"
    /\ SharedCtx \in cancelled
    /\ ret' = [ret EXCEPT ![t] = "nil"]
    /\ pc' = [pc EXCEPT ![t] = "done"]
    /\ UNCHANGED shared
    /\ UNCHANGED <<op, ncalls, objName, optName, clusterName, newCache,
                   seen, informers, effects, regAtStart>>
    /\ UNCHANGED more

\* the steps of Start when no Get runs next to it: nothing writes the map
StartAlone(t) ==
    \/ StartBegin(t)
    \/ \E cs \in ClusterNames : StartRange(t, cs)
    \/ StartWait(t)
    \/ StartReturn(t)

Start(t) ==
    \/ StartBegin(t)
    \/ \E cs \in ClusterNames : StartRange(t, cs)
    \/ StartRangeCrash(t)
    \/ StartWait(t)
    \/ StartReturn(t)

\* cancelling a context tears the registry down: every entry is evicted
Cancel_Evicts(c) ==
    /\ ~crashed
    /\ c \in Ctxs \ cancelled
    /\ cancelled' = cancelled \cup {c}
    /\ clusterToCache' = EmptyMap
    /\ UNCHANGED <<created, optsClusterName, writing, raced, crashed, tasks>>
    /\ UNCHANGED locals
    /\ UNCHANGED <<indexed, stopped, synced, ctxVal, hasIndexers, failed, objGiven>>

\* the owner of a context cancels it
Cancel(c) ==
    /\ ~crashed
    /\ c \in Ctxs \ cancelled
    /\ cancelled' = cancelled \cup {c}
    /\ UNCHANGED shared
    /\ UNCHANGED locals
    /\ UNCHANGED <<indexed, stopped, synced, ctxVal, hasIndexers, failed, objGiven>>

\* lines 135, 144 and 210: cache.Start(ctx) returns once its ctx is done and
\* the goroutine ends
TaskStops(k) ==
    /\ ~crashed
    /\ k \in tasks \ stopped
    /\ k.ctx \in cancelled
    /\ stopped' = stopped \cup {k}
    /\ UNCHANGED shared
    /\ UNCHANGED locals
    /\ UNCHANGED <<indexed, cancelled, synced, ctxVal, hasIndexers, failed, objGiven>>

\* a cache's Start that fails ends the process: every context is cancelled
TaskFails_AbortsAll(k) ==
    /\ ~crashed
    /\ k \in tasks \ stopped
    /\ stopped' = stopped \cup {k}
    /\ failed' = failed \cup {k}
    /\ cancelled' = Ctxs
    /\ UNCHANGED shared
    /\ UNCHANGED locals
    /\ UNCHANGED <<indexed, synced, ctxVal, hasIndexers, objGiven>>

\* lines 135-138, 144-147 and 210-213: cache.Start(ctx) returns an error:
\* the goroutine logs it and ends
TaskFails(k) ==
    /\ ~crashed
    /\ k \in tasks \ stopped
    /\ stopped' = stopped \cup {k}
    /\ failed' = failed \cup {k}
    /\ UNCHANGED shared
    /\ UNCHANGED locals
    /\ UNCHANGED <<indexed, cancelled, synced, ctxVal, hasIndexers, objGiven>>

Background ==
    \/ \E c \in Ctxs : Cancel(c)
    \/ \E k \in tasks : TaskStops(k)

\* a caller of Start, the contexts and the tasks
NextStart == (\E t \in Threads : StartAlone(t)) \/ Background
SpecStart == Init /\ [][NextStart]_vars

\* the Go scheduler runs a goroutine that can run: a Start whose ctx is done
\* returns
SpecStartFair == SpecStart /\ \A t \in Threads : WF_vars(StartReturn(t))

\* callers of Get next to a caller of Start, the contexts and the tasks
NextTasks == (\E t \in Threads : Get(t) \/ Start(t)) \/ Background
SpecTasks == Init /\ [][NextTasks]_vars

\* ------------------------------------------------------ WaitForCacheSync
\* the statement of line 159 without the test of line 158: the last cache's
\* answer wins
Accumulate_LastWins(cur, s) == s

\* WaitForCacheSync, lines 158-160: if s := ...; !s { synced = s }
Accumulate(cur, s) == IF ~s THEN s ELSE cur

\* the bool WaitForCacheSync returns
BoolRet(b) == IF b THEN "true" ELSE "false"

\* WaitForCacheSync, lines 155-156: synced := true
WaitBegin(t) ==
    /\ CanCall(t)
    /\ Enter(t, "WaitForCacheSync")
    /\ synced' = [synced EXCEPT ![t] = TRUE]
    /\ effects' = [effects EXCEPT ![t] = {}]
    /\ clusterName' = [clusterName EXCEPT ![t] = NoName]
    /\ regAtStart' = [regAtStart EXCEPT ![t] = clusterToCache]
    /\ ret' = [ret EXCEPT ![t] = "none"]
    /\ pc' = [pc EXCEPT ![t] = "wfcs_range"]
    /\ UNCHANGED shared
    /\ UNCHANGED <<objName, optName>>
    /\ UNCHANGED <<indexed, cancelled, stopped, ctxVal, hasIndexers, failed, objGiven>>

\* WaitForCacheSync, lines 157-161, one turn of the range loop: the cache
\* answers s
WaitRange(t, cs, s) ==
    /\ ~crashed
    /\ pc[t] = "wfcs_range"
    /\ cs \in Registered \ seen[t]
    /\ seen' = [seen EXCEPT ![t] = @ \cup {cs}]
    /\ synced' = [synced EXCEPT ![t] = Accumulate(@, s)]
    /\ effects' = [effects EXCEPT ![t] =
           @ \cup {[ev |-> "WaitForCacheSync", cache |-> clusterToCache[cs], res |-> s]}]
    /\ UNCHANGED shared
    /\ UNCHANGED <<pc, op, ncalls, objName, optName, clusterName, newCache,
                   informers, ret, regAtStart>>
    /\ UNCHANGED <<indexed, cancelled, stopped, ctxVal, hasIndexers, failed, objGiven>>

\* WaitForCacheSync, line 157 when another goroutine is writing the map
WaitRangeCrash(t) ==
    /\ ~crashed
    /\ pc[t] = "wfcs_range"
    /\ ReadRaces(t)
    /\ Crash

\* WaitForCacheSync, lines 163-167: the loop is over, the global cache
\* answers s: return synced
WaitReturn(t, s) ==
    /\ ~crashed
    /\ pc[t] = "wfcs_range"
    /\ (DOMAIN regAtStart[t]) \subseteq seen[t]
    /\ synced' = [synced EXCEPT ![t] = IF ~s THEN FALSE ELSE @]
    /\ ret' = [ret EXCEPT ![t] = BoolRet(IF ~s THEN FALSE ELSE synced[t])]
    /\ effects' = [effects EXCEPT ![t] =
           @ \cup {[ev |-> "WaitForCacheSync", cache |-> GlobalInst, res |-> s]}]
    /\ pc' = [pc EXCEPT ![t] = "done"]
    /\ UNCHANGED shared
    /\ UNCHANGED <<op, ncalls, objName, optName, clusterName, newCache,
                   seen, informers, regAtStart>>
    /\ UNCHANGED <<indexed, cancelled, stopped, ctxVal, hasIndexers, failed, objGiven>>

WaitForCacheSync(t) ==
    \/ WaitBegin(t)
    \/ \E cs \in ClusterNames, s \in BOOLEAN : WaitRange(t, cs, s)
    \/ WaitRangeCrash(t)
    \/ \E s \in BOOLEAN : WaitReturn(t, s)

\* the steps of WaitForCacheSync when no Get runs next to it
WaitAlone(t) ==
    \/ WaitBegin(t)
    \/ \E cs \in ClusterNames, s \in BOOLEAN : WaitRange(t, cs, s)
    \/ \E s \in BOOLEAN : WaitReturn(t, s)

\* callers of Start and of WaitForCacheSync, the contexts, and tasks that
\* end on cancellation or fail
NextFail ==
    \/ \E t \in Threads : StartAlone(t) \/ WaitAlone(t)
    \/ Background
    \/ \E k \in tasks : TaskFails(k)
SpecFail == Init /\ [][NextFail]_vars

\* callers that call Get and WaitForCacheSync
NextSync == \E t \in Threads : Get(t) \/ WaitForCacheSync(t)
SpecSync == Init /\ [][NextSync]_vars

\* ---------------------------------------------------- GetInformerForKind
\* the same method written to ask the global cache, as the other methods do
GetInformerForKind_Global(t) ==
    /\ CanCall(t)
    /\ Enter(t, "GetInformerForKind")
    /\ ret' = [ret EXCEPT ![t] = "ok"]
    /\ effects' = [effects EXCEPT ![t] =
                     {[ev |-> "GetInformerForKind", cache |-> GlobalInst, res |-> "ok"]}]
    /\ clusterName' = [clusterName EXCEPT ![t] = NoName]
    /\ regAtStart' = [regAtStart EXCEPT ![t] = EmptyMap]
    /\ pc' = [pc EXCEPT ![t] = "done"]
    /\ UNCHANGED shared
    /\ UNCHANGED <<objName, optName>>
    /\ UNCHANGED more

\* GetInformerForKind, lines 128-130:
\* return nil, fmt.Errorf("not supported in multiClustercache")
GetInformerForKind(t) ==
    /\ CanCall(t)
    /\ Enter(t, "GetInformerForKind")
    /\ ret' = [ret EXCEPT ![t] = "notSupported"]
    /\ effects' = [effects EXCEPT ![t] = {}]
    /\ clusterName' = [clusterName EXCEPT ![t] = NoName]
    /\ regAtStart' = [regAtStart EXCEPT ![t] = EmptyMap]
    /\ pc' = [pc EXCEPT ![t] = "done"]
    /\ UNCHANGED shared
    /\ UNCHANGED <<objName, optName>>
    /\ UNCHANGED more

\* callers that call Get and GetInformerForKind
NextKind == \E t \in Threads : Get(t) \/ GetInformerForKind(t)
SpecKind == Init /\ [][NextKind]_vars

\* ---------------------------------------------------- multiClusterInformer
\* thread t holds the *multiClusterInformer a GetInformer of its own returned:
\* its clusterNameToInformer is informers[t]
HoldsInformer(t) ==
    /\ pc[t] = "done"
    /\ \/ op[t] = "GetInformer" /\ ret[t] = "ok"
       \/ op[t] \in {"HasSynced", "AddIndexers"}

\* a method of the informer t holds is called: the range loop has not begun
EnterInformer(t, method, at) ==
    /\ ~crashed
    /\ ncalls < MaxCalls
    /\ HoldsInformer(t)
    /\ op' = [op EXCEPT ![t] = method]
    /\ ncalls' = ncalls + 1
    /\ seen' = [seen EXCEPT ![t] = {}]
    /\ ret' = [ret EXCEPT ![t] = "none"]
    /\ effects' = [effects EXCEPT ![t] = {}]
    /\ pc' = [pc EXCEPT ![t] = at]
    /\ UNCHANGED <<objName, optName, clusterName, newCache, informers, regAtStart>>
    /\ UNCHANGED shared

\* HasSynced, lines 285-286: for _, informer := range i.clusterNameToInformer
HasSyncedBegin(t) ==
    /\ EnterInformer(t, "HasSynced", "hs_range")
    /\ UNCHANGED more

\* a constituent that reports false is passed over and the loop goes on
HasSyncedCall_GoesOn(t, k, s) ==
    /\ ~crashed
    /\ pc[t] = "hs_range"
    /\ k \in (DOMAIN informers[t]) \ seen[t]
    /\ seen' = [seen EXCEPT ![t] = @ \cup {k}]
    /\ effects' = [effects EXCEPT ![t] =
                     @ \cup {[ev |-> "HasSynced", key |-> k, res |-> s]}]
    /\ UNCHANGED <<pc, ret>>
    /\ UNCHANGED <<op, ncalls, objName, optName, clusterName, newCache,
                   informers, regAtStart>>
    /\ UNCHANGED shared
    /\ UNCHANGED more

\* HasSynced, lines 286-289, one turn of the loop, in the order the map
\* yields its keys: if ok := informer.HasSynced(); !ok { return ok }
HasSyncedCall(t, k, s) ==
    /\ ~crashed
    /\ pc[t] = "hs_range"
    /\ k \in (DOMAIN informers[t]) \ seen[t]
    /\ seen' = [seen EXCEPT ![t] = @ \cup {k}]
    /\ effects' = [effects EXCEPT ![t] =
                     @ \cup {[ev |-> "HasSynced", key |-> k, res |-> s]}]
    /\ IF s
       THEN UNCHANGED <<pc, ret>>
       ELSE /\ ret' = [ret EXCEPT ![t] = BoolRet(s)]
            /\ pc' = [pc EXCEPT ![t] = "done"]
    /\ UNCHANGED <<op, ncalls, objName, optName, clusterName, newCache,
                   informers, regAtStart>>
    /\ UNCHANGED shared
    /\ UNCHANGED more

\* HasSynced, line 291: the loop is over: return true
HasSyncedReturn(t) ==
    /\ ~crashed
    /\ pc[t] = "hs_range"
    /\ seen[t] = DOMAIN informers[t]
    /\ ret' = [ret EXCEPT ![t] = BoolRet(TRUE)]
    /\ pc' = [pc EXCEPT ![t] = "done"]
    /\ UNCHANGED <<op, ncalls, objName, optName, clusterName, newCache,
                   seen, informers, effects, regAtStart>>
    /\ UNCHANGED shared
    /\ UNCHANGED more

HasSynced(t) ==
    \/ HasSyncedBegin(t)
    \/ \E k \in ClusterNames, s \in BOOLEAN : HasSyncedCall(t, k, s)
    \/ HasSyncedReturn(t)

\* what a constituent's AddIndexers returns
AddResults == {"ok", "addErr"}

\* AddIndexers, lines 274-275: for _, informer := range i.clusterNameToInformer
AddIndexersBegin(t) ==
    /\ EnterInformer(t, "AddIndexers", "ai_range")
    /\ UNCHANGED more

\* a failure takes the indexers back from the informers that had taken them
AddIndexersCall_RollsBack(t, k, r) ==
    /\ ~crashed
    /\ pc[t] = "ai_range"
    /\ k \in (DOMAIN informers[t]) \ seen[t]
    /\ seen' = [seen EXCEPT ![t] = @ \cup {k}]
    /\ effects' = [effects EXCEPT ![t] =
                     @ \cup {[ev |-> "AddIndexers", key |-> k, res |-> r]}]
    /\ IF r = "ok"
       THEN /\ hasIndexers' = hasIndexers \cup {informers[t][k]}
            /\ UNCHANGED <<pc, ret>>
       ELSE /\ hasIndexers' = hasIndexers \ {informers[t][j] : j \in seen[t]}
            /\ ret' = [ret EXCEPT ![t] = r]
            /\ pc' = [pc EXCEPT ![t] = "done"]
    /\ UNCHANGED <<op, ncalls, objName, optName, clusterName, newCache,
                   informers, regAtStart>>
    /\ UNCHANGED shared
    /\ UNCHANGED <<indexed, cancelled, stopped, synced, ctxVal, failed, objGiven>>

\* AddIndexers, lines 275-280, one turn of the loop:
\* err := informer.AddIndexers(indexers); if err != nil { return err }
AddIndexersCall(t, k, r) ==
    /\ ~crashed
    /\ pc[t] = "ai_range"
    /\ k \in (DOMAIN informers[t]) \ seen[t]
    /\ seen' = [seen EXCEPT ![t] = @ \cup {k}]
    /\ effects' = [effects EXCEPT ![t] =
                     @ \cup {[ev |-> "AddIndexers", key |-> k, res |-> r]}]
    /\ IF r = "ok"
       THEN /\ hasIndexers' = hasIndexers \cup {informers[t][k]}
            /\ UNCHANGED <<pc, ret>>
       ELSE /\ UNCHANGED hasIndexers
            /\ ret' = [ret EXCEPT ![t] = r]
            /\ pc' = [pc EXCEPT ![t] = "done"]
    /\ UNCHANGED <<op, ncalls, objName, optName, clusterName, newCache,
                   informers, regAtStart>>
    /\ UNCHANGED shared
    /\ UNCHANGED <<indexed, cancelled, stopped, synced, ctxVal, failed, objGiven>>

\* AddIndexers, line 281: the loop is over: return nil
AddIndexersReturn(t) ==
    /\ ~crashed
    /\ pc[t] = "ai_range"
    /\ seen[t] = DOMAIN informers[t]
    /\ ret' = [ret EXCEPT ![t] = "ok"]
    /\ pc' = [pc EXCEPT ![t] = "done"]
    /\ UNCHANGED <<op, ncalls, objName, optName, clusterName, newCache,
                   seen, informers, effects, regAtStart>>
    /\ UNCHANGED shared
    /\ UNCHANGED more

AddIndexers(t) ==
    \/ AddIndexersBegin(t)
    \/ \E k \in ClusterNames, r \in AddResults : AddIndexersCall(t, k, r)
    \/ AddIndexersReturn(t)

\* the steps of GetInformer when no Get runs next to it: nothing writes the map
GetInformerAlone(t) ==
    \/ \E obj \in NameInputs, ctxv \in NameInputs : GetInformerGlobalFails(t, obj, ctxv)
    \/ \E obj \in NameInputs, ctxv \in NameInputs : GetInformerBegin(t, obj, ctxv)
    \/ \E cs \in ClusterNames : GetInformerRange(t, cs)
    \/ \E cs \in ClusterNames : GetInformerRangeFails(t, cs)
    \/ GetInformerReturn(t)

\* callers of GetInformer that call the methods of the informer they got
NextFanout == \E t \in Threads : GetInformerAlone(t) \/ HasSynced(t) \/ AddIndexers(t)
SpecFanout == Init /\ [][NextFanout]_vars

\* ------------------------------------------------------- getClusterName
\* line 118: clusterName, _ = ctx.Value("clusterName").(string): the failed
\* type assertion of a nil value leaves the zero value ""
ctxValue(c) == IF c = NoValue THEN NoName ELSE c

\* lines 115-126: a call of getClusterName(ctx, obj) with a non-nil obj
Resolve(t, obj, c) ==
    /\ CanCall(t)
    /\ Enter(t, "getClusterName")
    /\ objName' = [objName EXCEPT ![t] = obj]
    /\ ctxVal' = [ctxVal EXCEPT ![t] = c]
    /\ clusterName' = [clusterName EXCEPT ![t] = getClusterName(ctxValue(c), obj)]
    /\ optName' = [optName EXCEPT ![t] = NoName]
    /\ regAtStart' = [regAtStart EXCEPT ![t] = EmptyMap]
    /\ ret' = [ret EXCEPT ![t] = "none"]
    /\ effects' = [effects EXCEPT ![t] = {}]
    /\ pc' = [pc EXCEPT ![t] = "done"]
    /\ UNCHANGED shared
    /\ UNCHANGED <<indexed, cancelled, stopped, synced, hasIndexers, failed, objGiven>>

\* line 116 with a nil obj: obj.GetClusterName() is a method call on a nil
\* interface value, a nil pointer dereference: the goroutine panics inside
\* method, which returns nothing to its caller
NilPanics(t, method, c) ==
    /\ CanCall(t)
    /\ Enter(t, method)
    /\ objName' = [objName EXCEPT ![t] = NilObj]
    /\ ctxVal' = [ctxVal EXCEPT ![t] = c]
    /\ clusterName' = [clusterName EXCEPT ![t] = NoName]
    /\ optName' = [optName EXCEPT ![t] = NoName]
    /\ regAtStart' = [regAtStart EXCEPT ![t] = EmptyMap]
    /\ ret' = [ret EXCEPT ![t] = "panic"]
    /\ effects' = [effects EXCEPT ![t] = {}]
    /\ pc' = [pc EXCEPT ![t] = "done"]
    /\ UNCHANGED shared
    /\ UNCHANGED <<indexed, cancelled, stopped, synced, hasIndexers, failed, objGiven>>

\* Get, line 188, with obj == nil
GetNil(t, c) == NilPanics(t, "Get", c)

\* GetInformer, line 86, with obj == nil
GetInformerNil(t, c) == NilPanics(t, "GetInformer", c)

\* IndexField, line 171, with obj == nil
IndexFieldNil(t, c) == NilPanics(t, "IndexField", c)

\* callers of the resolver, directly and through the three methods that hand
\* it the caller's object
NextResolve ==
    \E t \in Threads :
        \/ \E obj \in NameInputs, c \in CtxInputs : Resolve(t, obj, c)
        \/ \E c \in CtxInputs : GetNil(t, c)
        \/ \E c \in CtxInputs : GetInformerNil(t, c)
        \/ \E c \in CtxInputs : IndexFieldNil(t, c)
SpecResolve == Init /\ [][NextResolve]_vars

\* ------------------------------------------------- the caller's object
\* the caller makes the object it is going to hand in and sets, or leaves
\* empty, its cluster name; what an earlier call returned is dropped
Prepare(t, obj) ==
    /\ ~crashed
    /\ pc[t] \in {"idle", "done"}
    /\ objGiven' = [objGiven EXCEPT ![t] = obj]
    /\ objName' = [objName EXCEPT ![t] = obj]
    /\ pc' = [pc EXCEPT ![t] = "idle"]
    /\ op' = [op EXCEPT ![t] = "none"]
    /\ UNCHANGED <<ncalls, optName, clusterName, newCache, seen, informers,
                   ret, effects, regAtStart>>
    /\ UNCHANGED shared
    /\ UNCHANGED <<indexed, cancelled, stopped, synced, ctxVal, hasIndexers, failed>>

\* the steps of a caller that hands the object it has prepared to Get, to
\* GetInformer or to IndexField, no other goroutine running next to it
GivenSteps(t) ==
    \/ \E obj \in NameInputs : Prepare(t, obj)
    \/ \E ctxv \in NameInputs : pc[t] = "idle" /\ GetGlobal(t, objGiven[t], ctxv)
    \/ \E ctxv \in NameInputs : pc[t] = "idle" /\ GetBegin(t, objGiven[t], ctxv)
    \/ GetLookup(t)
    \/ GetSetOpts(t)
    \/ GetNew(t)
    \/ GetNewFails(t)
    \/ GetAssignBegin(t)
    \/ GetAssignEnd(t)
    \/ \E ctxv \in NameInputs :
         pc[t] = "idle" /\ GetInformerGlobalFails(t, objGiven[t], ctxv)
    \/ \E ctxv \in NameInputs : pc[t] = "idle" /\ GetInformerBegin(t, objGiven[t], ctxv)
    \/ \E cs \in ClusterNames : GetInformerRange(t, cs)
    \/ \E cs \in ClusterNames : GetInformerRangeFails(t, cs)
    \/ GetInformerReturn(t)
    \/ \E ctxv \in NameInputs : pc[t] = "idle" /\ IndexFieldGlobal(t, objGiven[t], ctxv)
    \/ \E ctxv \in NameInputs : pc[t] = "idle" /\ IndexFieldBegin(t, objGiven[t], ctxv)
    \/ \E cs \in ClusterNames : IndexFieldRange(t, cs)
    \/ \E cs \in ClusterNames : IndexFieldRangeFails(t, cs)
    \/ IndexFieldReturn(t)

NextGiven == GivenSteps(1)
SpecGiven == Init /\ [][NextGiven]_vars

\* --------------------------------------------------------- one caller
\* the steps of a caller that no other goroutine runs next to: every step of
\* the seven methods but the outcomes of a data race
Steps(t) ==
    \/ \E obj \in NameInputs, ctxv \in NameInputs : GetGlobal(t, obj, ctxv)
    \/ \E obj \in NameInputs, ctxv \in NameInputs : GetBegin(t, obj, ctxv)
    \/ GetLookup(t)
    \/ GetSetOpts(t)
    \/ GetNew(t)
    \/ GetNewFails(t)
    \/ GetAssignBegin(t)
    \/ GetAssignEnd(t)
    \/ \E lopt \in NameInputs, ctxv \in NameInputs : ListGlobal(t, lopt, ctxv)
    \/ \E lopt \in NameInputs, ctxv \in NameInputs : ListBegin(t, lopt, ctxv)
    \/ ListLookup(t)
    \/ \E obj \in NameInputs, ctxv \in NameInputs : GetInformerGlobalFails(t, obj, ctxv)
    \/ \E obj \in NameInputs, ctxv \in NameInputs : GetInformerBegin(t, obj, ctxv)
    \/ \E cs \in ClusterNames : GetInformerRange(t, cs)
    \/ \E cs \in ClusterNames : GetInformerRangeFails(t, cs)
    \/ GetInformerReturn(t)
    \/ GetInformerForKind(t)
    \/ \E obj \in NameInputs, ctxv \in NameInputs : IndexFieldGlobal(t, obj, ctxv)
    \/ \E obj \in NameInputs, ctxv \in NameInputs : IndexFieldBegin(t, obj, ctxv)
    \/ \E cs \in ClusterNames : IndexFieldRange(t, cs)
    \/ \E cs \in ClusterNames : IndexFieldRangeFails(t, cs)
    \/ IndexFieldReturn(t)
    \/ StartBegin(t)
    \/ \E cs \in ClusterNames : StartRange(t, cs)
    \/ StartWait(t)
    \/ StartReturn(t)
    \/ WaitBegin(t)
    \/ \E cs \in ClusterNames, s \in BOOLEAN : WaitRange(t, cs, s)
    \/ \E s \in BOOLEAN : WaitReturn(t, s)

\* one caller making any sequence of calls, the context of Start and the
\* caller's own being cancelled at any moment, and the tasks
NextSeq ==
    \/ Steps(1)
    \/ \E c \in {SharedCtx, 1} : Cancel(c)
    \/ \E k \in tasks : TaskStops(k)
SpecSeq == Init /\ [][NextSeq]_vars

\* ------------------------------------------------------------ the system
Next ==
    \/ \E t \in Threads :
          \/ Get(t)
          \/ List(t)
          \/ GetInformer(t)
          \/ GetInformerForKind(t)
          \/ IndexField(t)
          \/ Start(t)
          \/ WaitForCacheSync(t)
    \/ Background
    \/ NextResolve
    \/ \E t \in Threads : HasSynced(t) \/ AddIndexers(t)
    \/ \E k \in tasks : TaskFails(k)
    \/ \E t \in Threads, obj \in NameInputs : Prepare(t, obj)

Spec == Init /\ [][Next]_vars

\* callers that only call Get
NextGet == \E t \in Threads : Get(t)
SpecGet == Init /\ [][NextGet]_vars

\* callers that call Get and List
NextList == \E t \in Threads : Get(t) \/ List(t)
SpecList == Init /\ [][NextList]_vars

\* callers that call Get and GetInformer
NextInformer == \E t \in Threads : Get(t) \/ GetInformer(t)
SpecInformer == Init /\ [][NextInformer]_vars

TypeOK ==
    /\ Registered \subseteq ClusterNames
    /\ \A k \in Registered : clusterToCache[k] \in 1..Len(created)
    /\ writing \subseteq Threads
    /\ crashed \in BOOLEAN

\* ===================================================================
\* Properties
\* ===================================================================
\* a call of method m by thread t has returned
Returned(t, m) == pc[t] = "done" /\ op[t] = m

\* the events of kind e of thread t's call
Events(t, e) == {x \in effects[t] : x.ev = e}

\* the Get calls that have returned and took the lazy-creation branch
Creators == {t \in Threads : Returned(t, "Get") /\ newCache[t] # 0}

Quiescent == ~crashed /\ \A t \in Threads : ~Active(t)

\* C1: concurrent Gets for the same unseen cluster P construct exactly one
\* cache for P, and every Get for P delegates to that one instance.
\* (The claim as stated; the code violates it.)
C1_SingleInstance ==
    /\ \A p \in ClusterNames : Cardinality(InstancesFor(p)) <= 1
    /\ \A t, u \in Threads :
         (/\ Returned(t, "Get") /\ Returned(u, "Get")
          /\ clusterName[t] = clusterName[u] /\ clusterName[t] # Wildcard
          /\ ret[t] \in GetResults /\ ret[u] \in GetResults)
         => {e.cache : e \in Events(t, "Get")} = {e.cache : e \in Events(u, "Get")}

\* C2: once concurrent Gets for N distinct unseen clusters have all returned
\* on a facade that had no cluster caches, exactly N caches were constructed
\* and the registry holds exactly N entries, one per cluster.
\* (The claim as stated; the code violates it.)
C2_ExactlyNEntries ==
    (/\ Quiescent
     /\ Cardinality(Creators) >= 2
     /\ \A t, u \in Creators : t # u => clusterName[t] # clusterName[u]
     /\ Len(created) = Cardinality(Creators))
    => /\ Cardinality(Registered) = Cardinality(Creators)
       /\ \A t \in Creators :
            /\ clusterName[t] \in Registered
            /\ clusterToCache[clusterName[t]] = newCache[t]

\* C3: a Get for a concrete unseen cluster P launches the task of the cache
\* it made before it returns and returns what that cache's Get returned;
\* on a facade with no cluster caches and no other call, the registry then
\* holds exactly the one entry P -> that cache.
C3_LazyCreate ==
    \A t \in Threads :
      (Returned(t, "Get") /\ newCache[t] # 0) =>
        /\ clusterName[t] # Wildcard
        /\ [cache |-> newCache[t], ctx |-> t] \in tasks
        /\ Events(t, "go") = {[ev |-> "go", cache |-> newCache[t]]}
        /\ Events(t, "New") = {[ev |-> "New", cache |-> newCache[t]]}
        /\ Events(t, "Get") = {[ev |-> "Get", cache |-> newCache[t], res |-> ret[t]]}
        /\ (ncalls = 1 /\ Len(created) = 1) =>
              /\ Registered = {clusterName[t]}
              /\ clusterToCache[clusterName[t]] = newCache[t]
              /\ tasks = {[cache |-> newCache[t], ctx |-> t]}

\* C3 witness: the one Get on a fresh facade created P's cache, and that
\* cache reported not-found
C3_Witness ==
    \E t \in Threads :
      /\ Returned(t, "Get") /\ newCache[t] # 0
      /\ ncalls = 1 /\ Len(created) = 1
      /\ ret[t] = "notfound"

\* thread t takes a step of its call
StepOf(t) ==
    <<pc[t], op[t], clusterName[t], ret[t], effects[t], newCache[t], seen[t]>>' #
    <<pc[t], op[t], clusterName[t], ret[t], effects[t], newCache[t], seen[t]>>

\* C4: a Get that resolves to "*" calls the global cache's Get and nothing
\* else: no cluster cache is called, none is constructed, no entry is
\* inserted, no task is launched.
C4_WildcardGetOnlyGlobal ==
    [][\A t \in Threads :
         (StepOf(t) /\ op'[t] = "Get" /\ clusterName'[t] = Wildcard) =>
           /\ pc'[t] = "done"
           /\ effects'[t] = {[ev |-> "Get", cache |-> GlobalInst, res |-> ret'[t]]}
           /\ UNCHANGED <<clusterToCache, created, tasks>>]_vars

\* C4 witness: a wildcard Get has returned on a facade that has cluster
\* caches it could have called
C4_Witness ==
    \E t \in Threads :
      /\ Returned(t, "Get") /\ clusterName[t] = Wildcard
      /\ Registered # {}

\* C5: when New fails inside Get, Get returns that error, the registry is
\* what it was, no task is launched and no cache is called.
C5_CreateFailure ==
    [][\A t \in Threads :
         (StepOf(t) /\ [ev |-> "NewFailed"] \in effects'[t] \ effects[t]) =>
           /\ pc'[t] = "done"
           /\ ret'[t] = "createErr"
           /\ effects'[t] = {[ev |-> "NewFailed"]}
           /\ UNCHANGED <<clusterToCache, created, tasks>>]_vars

\* C5 witness: a Get whose New failed has returned and its cluster has no
\* entry
C5_Witness ==
    \E t \in Threads :
      /\ Returned(t, "Get") /\ ret[t] = "createErr"
      /\ clusterName[t] \notin Registered

\* C6: List against a concrete cluster that has no registry entry fails
\* with the unknown-cluster error, calls no cache's List and leaves the
\* registry as it was.  (The claim as stated; the code violates it.)
C6_ListUnknownCluster ==
    \A t \in Threads :
      (/\ Returned(t, "List")
       /\ optName[t] \in ClusterNames
       /\ optName[t] \notin DOMAIN regAtStart[t]
       /\ optName[t] \notin Registered) =>
        /\ ret[t] = "unknownCluster"
        /\ effects[t] = {}

\* C7: List routes by the cluster name in the list options: "*" goes to the
\* global cache, a registered P to P's cache and to no other.
\* (The claim as stated; the code violates it.)
C7_ListRoutesByOptions ==
    \A t \in Threads :
      Returned(t, "List") =>
        /\ optName[t] = Wildcard =>
             effects[t] = {[ev |-> "List", cache |-> GlobalInst, res |-> ret[t]]}
        /\ (optName[t] \in DOMAIN regAtStart[t]) =>
             effects[t] = {[ev |-> "List", cache |-> regAtStart[t][optName[t]],
                            res |-> ret[t]]}

\* C8: List with no cluster name in its list options fails with a usage
\* error that is not the unknown-cluster error, and calls no cache.
\* (The claim as stated; the code violates it.)
C8_ListEmptyIsUsageError ==
    \A t \in Threads :
      (Returned(t, "List") /\ optName[t] = NoName) =>
        /\ ret[t] = "usageErr"
        /\ effects[t] = {}

\* C9: a wildcard GetInformer that succeeds returns a fan-out informer whose
\* constituents are the global cache's informer and the informer of every
\* cluster cache registered at call time (one registered while the call ran
\* may be among them).  (The claim as stated; the code violates it.)
C9_WildcardFanout ==
    \A t \in Threads :
      (Returned(t, "GetInformer") /\ clusterName[t] = Wildcard /\ ret[t] = "ok") =>
        /\ {GlobalInst} \cup Constituents(regAtStart[t])
              \subseteq Constituents(informers[t])
        /\ Constituents(informers[t]) \subseteq
              {GlobalInst} \cup Constituents(regAtStart[t]) \cup Constituents(clusterToCache)

\* C10: a GetInformer for a concrete cluster P obtains an informer from P's
\* cache only, creating that cache when P is not registered.
\* (The claim as stated; the code violates it.)
C10_ConcreteInformerSingleCache ==
    \A t \in Threads :
      (Returned(t, "GetInformer") /\ clusterName[t] # Wildcard /\ ret[t] = "ok") =>
        /\ clusterName[t] \in Registered
        /\ Constituents(informers[t]) = {clusterToCache[clusterName[t]]}
        /\ \A e \in effects[t] : e.cache = clusterToCache[clusterName[t]]

GlobalTask == [cache |-> GlobalInst, ctx |-> SharedCtx]

\* the tasks Start owes the caches registered when thread t called it
StartTasks(t) ==
    {GlobalTask} \cup {[cache |-> regAtStart[t][k], ctx |-> SharedCtx] :
                         k \in DOMAIN regAtStart[t]}

\* C12: Start launches the task of the global cache and of every cluster
\* cache registered at call time, each a goroutine of its own; it has not
\* returned while its ctx is not cancelled, and once the ctx is cancelled
\* it returns nil.
C12_StartBlocksUntilCancelled ==
    /\ [](\A t \in Threads :
            (op[t] = "Start" /\ pc[t] \in {"start_wait", "done"}) =>
               /\ StartTasks(t) \subseteq tasks
               /\ {e.cache : e \in Events(t, "go")} = {k.cache : k \in StartTasks(t)})
    /\ [](\A t \in Threads :
            Returned(t, "Start") => (SharedCtx \in cancelled /\ ret[t] = "nil"))
    /\ \A t \in Threads :
         (pc[t] = "start_wait" /\ SharedCtx \in cancelled) ~> Returned(t, "Start")

\* C12 witness: a Start on a facade with cluster caches has returned after
\* its ctx was cancelled
C12_Witness ==
    \E t \in Threads :
      /\ Returned(t, "Start")
      /\ regAtStart[t] # EmptyMap
      /\ SharedCtx \in cancelled
      /\ Cardinality(StartTasks(t)) >= 2

\* C13 as stated: the global cache's task is running from construction on.
\* (The code violates it: the builder launches nothing.)
C13_GlobalTaskAtConstruction == GlobalTask \in tasks

\* C13 amended: after construction no task is running; the global cache's
\* task is launched by each call of Start, and by nothing else.
C13_GlobalTaskLaunchedByStart ==
    /\ tasks = {}
    /\ [][/\ \A t \in Threads :
               (pc[t] \in {"idle", "done"} /\ pc'[t] = "start_range") =>
                  GlobalTask \in tasks'
          /\ (GlobalTask \in tasks' /\ GlobalTask \notin tasks) =>
                \E t \in Threads :
                   pc[t] \in {"idle", "done"} /\ pc'[t] = "start_range"]_vars

\* C13 witness: Start has been called and the global cache's task runs
C13_Witness ==
    \E t \in Threads :
      /\ op[t] = "Start" /\ pc[t] = "start_wait"
      /\ GlobalTask \in tasks \ stopped

\* C15: every task runs under the shared ctx of Start, the one launched by
\* Get included, and no task stops unless that ctx is cancelled.
\* (The claim as stated; the code violates it.)
C15_SharedContextGatesTasks ==
    /\ \A k \in tasks : k.ctx = SharedCtx
    /\ \A k \in stopped : SharedCtx \in cancelled

\* C14: WaitForCacheSync returns true exactly when the global cache and the
\* cache of every cluster registered at call time answered true; it asks
\* each of them, and each once.
C14_WaitAggregates ==
    \A t \in Threads :
      Returned(t, "WaitForCacheSync") =>
        /\ (ret[t] = "true") <=> (\A e \in effects[t] : e.res = TRUE)
        /\ ret[t] \in {"true", "false"}
        /\ (DOMAIN regAtStart[t]) \subseteq seen[t]
        /\ GlobalInst \in {e.cache : e \in effects[t]}
        /\ \A e \in effects[t] : e.ev = "WaitForCacheSync"
        /\ \A e1, e2 \in effects[t] : e1.cache = e2.cache => e1 = e2
        /\ Cardinality(effects[t]) = Cardinality(seen[t]) + 1

\* C14 witness: one cluster cache answered false, a later one and the
\* global cache answered true, and the call returned false
C14_Witness ==
    \E t \in Threads :
      /\ Returned(t, "WaitForCacheSync")
      /\ ret[t] = "false"
      /\ Cardinality(seen[t]) = 2
      /\ Cardinality({e \in effects[t] : e.res = FALSE}) = 1
      /\ \E e \in effects[t] : e.cache = GlobalInst /\ e.res = TRUE

\* C18: GetInformerForKind fails with the not-supported error whatever the
\* state, returns no informer, calls no cache and changes nothing.
C18_ForKindNotSupported ==
    [][\A t \in Threads :
         (/\ pc[t] \in {"idle", "done"}
          /\ op'[t] = "GetInformerForKind"
          /\ StepOf(t) \/ (ncalls' # ncalls /\ \A u \in Threads : ~StepOf(u))) =>
           /\ pc'[t] = "done"
           /\ ret'[t] = "notSupported"
           /\ informers'[t] = EmptyMap
           /\ effects'[t] = {}
           /\ UNCHANGED <<clusterToCache, created, optsClusterName, tasks, indexed>>]_vars

\* C18 witness: GetInformerForKind has failed on a facade with registered
\* clusters while another call is under way
C18_Witness ==
    \E t, u \in Threads :
      /\ Returned(t, "GetInformerForKind") /\ ret[t] = "notSupported"
      /\ Registered # {}
      /\ Active(u)

\* C17: whatever a caller does, in whatever order, and whichever context is
\* cancelled, no step removes a cluster name from clusterToCache: a name once
\* in the map is in it in every later state.
C17_RegistryNeverShrinks == [][Registered \subseteq Registered']_vars

\* a Get inserted a cache of its own, the context of that Get was cancelled,
\* the cache's task has stopped, and the entry is still there
C17_Witness ==
    \E t \in Threads :
      /\ Returned(t, "Get") /\ newCache[t] # 0
      /\ [cache |-> newCache[t], ctx |-> t] \in stopped
      /\ clusterName[t] \in Registered
      /\ clusterToCache[clusterName[t]] = newCache[t]

\* a range over clusterToCache of thread u has produced an entry and is not
\* over (lines 102, 142, 158, 179)
Iterating(u) ==
    /\ pc[u] \in {"gi_range", "if_range", "start_range", "wfcs_range"}
    /\ seen[u] # {}

\* C16: clusterToCache is never read while it is written: whenever a thread
\* is inside the map assignment of Get, no other thread is in the middle of a
\* range over the map.
C16_RegistryProtected ==
    \A t \in writing : \A u \in Threads \ {t} : ~Iterating(u)

\* C19: getClusterName returns the object's own cluster name when it is not
\* empty; otherwise the context's "clusterName" value when the context has
\* one and it is not empty; otherwise "*".
C19_ResolverPrecedence ==
    \A t \in Threads :
      Returned(t, "getClusterName") =>
        clusterName[t] =
          IF objName[t] # NoName THEN objName[t]
          ELSE IF ctxVal[t] \notin {NoValue, NoName} THEN ctxVal[t]
          ELSE Wildcard

\* C19 witness: one call fell back on the context, another met an object
\* with a name and a context with a different one
C19_Witness ==
    \E t, u \in Threads :
      /\ Returned(t, "getClusterName") /\ Returned(u, "getClusterName")
      /\ objName[t] = NoName /\ ctxVal[t] = "a" /\ clusterName[t] = "a"
      /\ objName[u] = globalClusterCache /\ ctxVal[u] = "a"
      /\ clusterName[u] = globalClusterCache

\* C20: a call of Get, GetInformer or IndexField with a nil object returns a
\* usage error to its caller: it does not panic and it resolves no cluster,
\* the wildcard included.
C20_NilObjectIsUsageError ==
    \A t \in Threads :
      (pc[t] = "done" /\ objName[t] = NilObj) =>
        /\ op[t] \in {"Get", "GetInformer", "IndexField"}
        /\ ret[t] = "usageErr"
        /\ effects[t] = {}

\* the constituents of the informer thread t holds that reported s to the
\* HasSynced call under way or just over
Reported(t, s) == {x.key : x \in {y \in Events(t, "HasSynced") : y.res = s}}

\* C21: HasSynced of the fan-out informer returns true exactly when every
\* constituent was asked and reported true; the first constituent that
\* reports false ends the call with false, so that no constituent is asked
\* after it; an informer without constituents returns true.
C21_HasSyncedIsAnd ==
    \A t \in Threads :
      op[t] = "HasSynced" =>
        /\ Reported(t, FALSE) # {} =>
             /\ Returned(t, "HasSynced") /\ ret[t] = "false"
             /\ Cardinality(Reported(t, FALSE)) = 1
        /\ Returned(t, "HasSynced") =>
             /\ ret[t] \in {"true", "false"}
             /\ ret[t] = "true" <=> Reported(t, TRUE) = DOMAIN informers[t]
             /\ ret[t] = "false" <=> Reported(t, FALSE) # {}
             /\ DOMAIN informers[t] = {} => ret[t] = "true"

\* C21 witness: a HasSynced over two constituents returned false on the
\* first it asked and never asked the other
C21_Witness ==
    \E t \in Threads :
      /\ Returned(t, "HasSynced") /\ ret[t] = "false"
      /\ Cardinality(DOMAIN informers[t]) = 2
      /\ Reported(t, TRUE) = {}

\* the constituents the AddIndexers call of thread t has forwarded to, with
\* a result in rs
Forwarded(t, rs) == {x.key : x \in {y \in Events(t, "AddIndexers") : y.res \in rs}}

\* C22: AddIndexers of the fan-out informer stops at the first constituent
\* that fails and returns its error: no constituent is called after it; the
\* constituents that had succeeded keep the indexers; nil is returned exactly
\* when every constituent was called and succeeded.
C22_AddIndexersStopsOnError ==
    \A t \in Threads :
      op[t] = "AddIndexers" =>
        /\ Forwarded(t, {"addErr"}) # {} =>
             /\ Returned(t, "AddIndexers") /\ ret[t] = "addErr"
             /\ Cardinality(Forwarded(t, {"addErr"})) = 1
        /\ \A k \in Forwarded(t, {"ok"}) : informers[t][k] \in hasIndexers
        /\ Returned(t, "AddIndexers") =>
             /\ ret[t] \in AddResults
             /\ ret[t] = "ok" <=> Forwarded(t, {"ok"}) = DOMAIN informers[t]
             /\ ret[t] = "addErr" <=> Forwarded(t, {"addErr"}) # {}

\* C22 witness: the second of two constituents failed and the first keeps
\* the indexers
C22_Witness ==
    \E t \in Threads :
      /\ Returned(t, "AddIndexers") /\ ret[t] = "addErr"
      /\ Cardinality(DOMAIN informers[t]) = 2
      /\ \E k \in Forwarded(t, {"ok"}) : informers[t][k] \in hasIndexers

\* C23: a task whose cache.Start returns an error ends alone: the step
\* returns no call of Start, cancels no context and stops no other task, and
\* the registry is as it was; Start still returns on the cancellation of its
\* ctx only, a task that did not fail stops on the cancellation of its ctx
\* only, the cache of a failed task stays registered, and a WaitForCacheSync
\* to which the cache of a failed task answered false returns false.
C23_TaskFailureIsIsolated ==
    /\ [][failed' # failed =>
            /\ \E k \in tasks \ stopped :
                 /\ failed' = failed \cup {k}
                 /\ stopped' = stopped \cup {k}
            /\ UNCHANGED <<clusterToCache, tasks, cancelled, pc, ret>>]_vars
    /\ [](\A t \in Threads : Returned(t, "Start") => SharedCtx \in cancelled)
    /\ [](\A k \in stopped \ failed : k.ctx \in cancelled)
    /\ [](\A k \in failed :
            \/ k.cache = GlobalInst
            \/ \E n \in Registered : clusterToCache[n] = k.cache)
    /\ [](\A t \in Threads :
            (/\ Returned(t, "WaitForCacheSync")
             /\ \E e \in effects[t], k \in failed :
                  e.cache = k.cache /\ e.res = FALSE)
            => ret[t] = "false")

\* C23 witness: the task of a cluster cache has failed; the Start that
\* launched it is still blocked, its ctx not cancelled; the global cache's
\* task is running; a WaitForCacheSync that the failed cache answered false
\* has returned false
C23_Witness ==
    \E t, u \in Threads, k \in failed :
      /\ k.cache # GlobalInst
      /\ op[t] = "Start" /\ pc[t] = "start_wait"
      /\ SharedCtx \notin cancelled
      /\ GlobalTask \in tasks \ stopped
      /\ Returned(u, "WaitForCacheSync") /\ ret[u] = "false"
      /\ [ev |-> "WaitForCacheSync", cache |-> k.cache, res |-> FALSE] \in effects[u]

\* C24: the cache registered under a cluster name was made by New with that
\* name in opts.ClusterName and with the host <base>/clusters/<name>.
C24_CacheScopedToItsKey ==
    \A n \in Registered :
      /\ created[clusterToCache[n]].host = n
      /\ created[clusterToCache[n]].name = n

\* C25: Get, GetInformer and IndexField leave the cluster name of the
\* caller's object as the caller set it: during the call and after it the
\* object carries the name it was handed in with.
C25_ResolutionKeepsObject ==
    \A t \in Threads :
      op[t] \in {"Get", "GetInformer", "IndexField"} => objName[t] = objGiven[t]

\* C26: no cache has its Start running, or run, in two goroutines: the
\* tasks launched by Get and by Start are for different caches.
C26_StartedAtMostOnce ==
    \A k1, k2 \in tasks : k1.cache = k2.cache => k1 = k2

====
